---- MODULE Spec2Model ----
(***************************************************************************)
(* Request lifecycle, response classification and event dispatch of the   *)
(* ShipEngine SDK.                                                         *)
(*                                                                         *)
(* Python dicts are modelled as functions whose DOMAIN is the set of keys  *)
(* present, so that d["k"] on an absent key is the KeyError the code       *)
(* raises.  Exceptions are modelled as records tagged with the class in    *)
(* field "kind"; a function that "returns None, only raises" is an         *)
(* operator whose value is the exception it raises, or NoError.            *)
(***************************************************************************)
EXTENDS Integers, Sequences, FiniteSets, TLC

\* ------------------------------------------------------------------ bounds
MaxRetries == 2
MaxTimeout == 2
MaxRetryAfter == 3
MaxStreetLines == 4
MaxCalls == 2
MaxEmissions == 1

\* -------------------------------------------------------------- dict helpers
Has(d, k) == k \in DOMAIN d

NoError == [kind |-> "none"]

KeyError(k) == [kind |-> "KeyError", key |-> k]

Raised(e) == e.kind # "none"

\* The first exception raised by a sequence of calls made one after another.
FirstRaised(es) ==
    IF \E i \in 1..Len(es) : Raised(es[i])
    THEN es[CHOOSE i \in 1..Len(es) :
                Raised(es[i]) /\ \A j \in 1..(i - 1) : ~Raised(es[j])]
    ELSE NoError

\* ------------------------------------------------------------------- enums
ErrorSource_SHIPENGINE == "shipengine"
ErrorType_VALIDATION == "validation"
ErrorCode_FIELD_VALUE_REQUIRED == "field_value_required"
ErrorCode_INVALID_FIELD_VALUE == "invalid_field_value"

\* --------------------------------------------------------------- validators
\* The two local errors: no request_id is passed and the attribute is None
\* (the string "None" here); InvalidFieldValueError sets its own error_type
\* and error_code.
ValidationError(message, source, error_type, error_code) ==
    [kind |-> "ValidationError", message |-> message, request_id |-> "None",
     source |-> source, error_type |-> error_type, error_code |-> error_code]

InvalidFieldValueError(field_name, reason, field_value, source) ==
    [kind |-> "InvalidFieldValueError", field_name |-> field_name,
     reason |-> reason, field_value |-> field_value, request_id |-> "None",
     source |-> source, error_type |-> ErrorType_VALIDATION,
     error_code |-> ErrorCode_INVALID_FIELD_VALUE]

is_street_valid(street) ==
    IF Len(street) = 0
    THEN ValidationError("Invalid address. At least one address line is required.",
                         ErrorSource_SHIPENGINE, ErrorType_VALIDATION,
                         ErrorCode_FIELD_VALUE_REQUIRED)
    ELSE IF Len(street) > 3
    THEN ValidationError("Invalid address. No more than 3 street lines are allowed.",
                         ErrorSource_SHIPENGINE, ErrorType_VALIDATION,
                         ErrorCode_INVALID_FIELD_VALUE)
    ELSE NoError

\* A string is a sequence of characters; re.match(r"\s", s) holds when the
\* first character is whitespace.
IsSpace(c) == c = " "

is_api_key_valid(config) ==
    IF ~Has(config, "api_key") \/ config["api_key"] = <<>>
    THEN ValidationError("A ShipEngine API key must be specified.",
                         ErrorSource_SHIPENGINE, ErrorType_VALIDATION,
                         ErrorCode_FIELD_VALUE_REQUIRED)
    ELSE IF IsSpace(config["api_key"][1])
    THEN ValidationError("A ShipEngine API key must be specified.",
                         ErrorSource_SHIPENGINE, ErrorType_VALIDATION,
                         ErrorCode_FIELD_VALUE_REQUIRED)
    ELSE NoError

\* Mutant of is_retries_valid: the comparison is off by one.
is_retries_valid_off_by_one(config) ==
    IF Has(config, "retries") /\ config["retries"] < -1
    THEN InvalidFieldValueError("retries", "Retries must be zero or greater.",
                                config["retries"], ErrorSource_SHIPENGINE)
    ELSE NoError

is_retries_valid(config) ==
    IF Has(config, "retries") /\ config["retries"] < 0
    THEN InvalidFieldValueError("retries", "Retries must be zero or greater.",
                                config["retries"], ErrorSource_SHIPENGINE)
    ELSE NoError

is_timeout_valid(config) ==
    IF Has(config, "timeout") /\ config["timeout"] < 0
    THEN InvalidFieldValueError("timeout", "Timeout must be zero or greater.",
                                config["timeout"], ErrorSource_SHIPENGINE)
    ELSE NoError

\* ------------------------------------------------------ response classifier
ClientSystemError(message, request_id, source, error_type, error_code) ==
    [kind |-> "ClientSystemError", message |-> message, request_id |-> request_id,
     source |-> source, error_type |-> error_type, error_code |-> error_code]

ClientTimeoutError(retry_after, source, request_id) ==
    [kind |-> "ClientTimeoutError", retry_after |-> retry_after,
     source |-> source, request_id |-> request_id]

RateLimitExceededError(retry_after, source, request_id) ==
    [kind |-> "RateLimitExceededError", retry_after |-> retry_after,
     source |-> source, request_id |-> request_id]

\* The constructor call of is_response_404 and is_response_500: the keyword
\* arguments are evaluated in the order written, each subscript raising
\* KeyError when its key is absent.
SystemErrorFrom(response_body, error, error_data) ==
    IF ~Has(error, "message") THEN KeyError("message")
    ELSE IF ~Has(response_body, "id") THEN KeyError("id")
    ELSE IF ~Has(error_data, "source") THEN KeyError("source")
    ELSE IF ~Has(error_data, "type") THEN KeyError("type")
    ELSE IF ~Has(error_data, "code") THEN KeyError("code")
    ELSE ClientSystemError(error["message"], response_body["id"],
                           error_data["source"], error_data["type"],
                           error_data["code"])

is_response_404(status_code, response_body) ==
    IF Has(response_body, "error")
    THEN LET error == response_body["error"] IN
         IF ~Has(error, "data") THEN KeyError("data")
         ELSE IF status_code = 404
         THEN SystemErrorFrom(response_body, error, error["data"])
         ELSE NoError
    ELSE NoError

\* Mutant of is_response_429: the comparison with config.timeout is dropped, so
\* a 429 never raises ClientTimeoutError.
is_response_429_unbounded(status_code, response_body, config) ==
    IF Has(response_body, "error") /\ status_code = 429
    THEN LET error == response_body["error"] IN
         IF ~Has(error, "data") THEN KeyError("data")
         ELSE IF ~Has(error["data"], "retryAfter") THEN KeyError("retryAfter")
         ELSE IF ~Has(response_body, "id") THEN KeyError("id")
         ELSE RateLimitExceededError(error["data"]["retryAfter"],
                                     ErrorSource_SHIPENGINE, response_body["id"])
    ELSE NoError

is_response_429(status_code, response_body, config) ==
    IF Has(response_body, "error") /\ status_code = 429
    THEN LET error == response_body["error"] IN
         IF ~Has(error, "data") THEN KeyError("data")
         ELSE IF ~Has(error["data"], "retryAfter") THEN KeyError("retryAfter")
         ELSE LET retry_after == error["data"]["retryAfter"] IN
              IF retry_after > config.timeout
              THEN IF ~Has(response_body, "id") THEN KeyError("id")
                   ELSE ClientTimeoutError(config.timeout, ErrorSource_SHIPENGINE,
                                           response_body["id"])
              ELSE IF ~Has(response_body, "id") THEN KeyError("id")
                   ELSE RateLimitExceededError(retry_after, ErrorSource_SHIPENGINE,
                                               response_body["id"])
    ELSE NoError

\* Mutant of is_response_500: guarded by the presence of "error", as
\* is_response_404 is.
is_response_500_guarded(status_code, response_body) ==
    IF status_code = 500 /\ Has(response_body, "error")
    THEN LET error == response_body["error"] IN
         IF ~Has(error, "data") THEN KeyError("data")
         ELSE SystemErrorFrom(response_body, error, error["data"])
    ELSE NoError

is_response_500(status_code, response_body) ==
    IF status_code = 500
    THEN IF ~Has(response_body, "error") THEN KeyError("error")
         ELSE LET error == response_body["error"] IN
              IF ~Has(error, "data") THEN KeyError("data")
              ELSE SystemErrorFrom(response_body, error, error["data"])
    ELSE NoError

\* The three checks run in the order 404, 429, 500; the first to raise ends
\* the classification.
classify(status_code, response_body, config) ==
    FirstRaised(<<is_response_404(status_code, response_body),
                  is_response_429(status_code, response_body, config),
                  is_response_500(status_code, response_body)>>)

\* -------------------------------------------------------------- event model
Events_ON_REQUEST_SENT == "on_request_sent"
Events_ON_RESPONSE_RECEIVED == "on_response_received"
REQUEST_SENT == "request_sent"
RESPONSE_RECEIVED == "response_received"

ShipEngineError(msg) == [kind |-> "ShipEngineError", message |-> msg]

\* Mutant of new_event_message: the two phrasings are exchanged.
new_event_message_exchanged(method, base_uri, message_type) ==
    IF message_type = "retry_message"
    THEN [raised |-> NoError,
          value |-> <<"Calling the ShipEngine ", method, " API at ", base_uri>>]
    ELSE IF message_type = "base_message"
    THEN [raised |-> NoError,
          value |-> <<"Retrying the ShipEngine ", method, " API at ", base_uri>>]
    ELSE [raised |-> ShipEngineError("not a valid type of message"),
          value |-> <<>>]

\* An f-string is modelled as the sequence of its literal and substituted
\* parts.
new_event_message(method, base_uri, message_type) ==
    IF message_type = "base_message"
    THEN [raised |-> NoError,
          value |-> <<"Calling the ShipEngine ", method, " API at ", base_uri>>]
    ELSE IF message_type = "retry_message"
    THEN [raised |-> NoError,
          value |-> <<"Retrying the ShipEngine ", method, " API at ", base_uri>>]
    ELSE [raised |-> ShipEngineError("not a valid type of message"),
          value |-> <<>>]

\* The timestamp (datetime.now()) is left out of the event records.
RequestSentEvent(request_id, message, url, headers, body, retry, timeout) ==
    [type |-> REQUEST_SENT, message |-> message, request_id |-> request_id,
     url |-> url, headers |-> headers, body |-> body, retry |-> retry,
     timeout |-> timeout]

ResponseReceivedEvent(message, request_id, url, status_code, headers, body, retry, elapsed) ==
    [type |-> RESPONSE_RECEIVED, message |-> message, request_id |-> request_id,
     url |-> url, status_code |-> status_code, headers |-> headers,
     body |-> body, retry |-> retry, elapsed |-> elapsed]

\* --------------------------------------------------------------- dispatcher
\* A callback is a record naming the function and saying whether calling it
\* raises.  NoneCallback is the default argument callback=None.
NoneCallback == [name |-> "None", owner |-> "-", raises |-> FALSE]

CallbackError(cb) == [kind |-> "CallbackError", callback |-> cb]

\* getattr(subscriber, "update"): the subscriber's own update method.
UpdateOf(subscriber) ==
    [name |-> "update", owner |-> subscriber.name, raises |-> subscriber.update_raises]

\* Dispatcher.__init__: one empty dict per event kind.  A dict that keeps
\* insertion order is a sequence of (subscriber, callback) entries with
\* distinct subscribers.
Dispatcher(events) == [event \in events |-> <<>>]

IndexOf(subs, subscriber) ==
    IF \E i \in 1..Len(subs) : subs[i].subscriber = subscriber
    THEN CHOOSE i \in 1..Len(subs) : subs[i].subscriber = subscriber
    ELSE 0

\* d[k] = v on an ordered dict: a present key keeps its place.
DictSet(subs, subscriber, callback) ==
    LET i == IndexOf(subs, subscriber)
        entry == [subscriber |-> subscriber, callback |-> callback] IN
    IF i = 0 THEN Append(subs, entry) ELSE [subs EXCEPT ![i] = entry]

DictDel(subs, subscriber) ==
    LET i == IndexOf(subs, subscriber) IN
    SubSeq(subs, 1, i - 1) \o SubSeq(subs, i + 1, Len(subs))

\* Each dispatcher operation yields the registry afterwards, the exception
\* raised (or NoError) and the callback invocations made, in order.
OpResult(registry, raised, calls) ==
    [events |-> registry, raised |-> raised, calls |-> calls]

\* Mutant of get_subscribers: an unknown kind has no subscribers
\* (self.events.get(event, {})).
get_subscribers_lenient(registry, event) ==
    IF Has(registry, event)
    THEN [raised |-> NoError, value |-> registry[event]]
    ELSE [raised |-> NoError, value |-> <<>>]

get_subscribers(registry, event) ==
    IF Has(registry, event)
    THEN [raised |-> NoError, value |-> registry[event]]
    ELSE [raised |-> KeyError(event), value |-> <<>>]

register(registry, event, subscriber, callback) ==
    LET cb == IF callback = NoneCallback THEN UpdateOf(subscriber) ELSE callback
        subs == get_subscribers(registry, event) IN
    IF Raised(subs.raised) THEN OpResult(registry, subs.raised, <<>>)
    ELSE OpResult([registry EXCEPT ![event] = DictSet(subs.value, subscriber, cb)],
                  NoError, <<>>)

unregister(registry, event, subscriber) ==
    LET subs == get_subscribers(registry, event) IN
    IF Raised(subs.raised) THEN OpResult(registry, subs.raised, <<>>)
    ELSE IF IndexOf(subs.value, subscriber) = 0
    THEN OpResult(registry, KeyError(subscriber.name), <<>>)
    ELSE OpResult([registry EXCEPT ![event] = DictDel(subs.value, subscriber)],
                  NoError, <<>>)

\* The loop of dispatch: callbacks are called in dict order; the first one
\* that raises ends the loop and its exception leaves dispatch.
FirstRaising(subs) ==
    IF \E i \in 1..Len(subs) : subs[i].callback.raises
    THEN CHOOSE i \in 1..Len(subs) :
             subs[i].callback.raises /\ \A j \in 1..(i - 1) : ~subs[j].callback.raises
    ELSE 0

dispatch(registry, event, event_name) ==
    LET subs == get_subscribers(registry, event_name) IN
    IF Raised(subs.raised) THEN OpResult(registry, subs.raised, <<>>)
    ELSE LET stop == FirstRaising(subs.value)
             last == IF stop = 0 THEN Len(subs.value) ELSE stop
             calls == [i \in 1..last |->
                          [subscriber |-> subs.value[i].subscriber,
                           callback |-> subs.value[i].callback,
                           event |-> event]] IN
         OpResult(registry,
                  IF stop = 0 THEN NoError
                  ELSE CallbackError(subs.value[stop].callback),
                  calls)

\* Mutant of emit_event: the response_received branch builds and dispatches
\* a RequestSentEvent.
emit_event_wrong_event(emitted_event_type, event_data, config) ==
    LET d0 == Dispatcher({Events_ON_REQUEST_SENT, Events_ON_RESPONSE_RECEIVED})
        d1 == register(d0, Events_ON_REQUEST_SENT, config.event_listener,
                       NoneCallback).events
        d2 == register(d1, Events_ON_RESPONSE_RECEIVED, config.event_listener,
                       NoneCallback).events
        request_sent_event ==
            RequestSentEvent(event_data.request_id, event_data.message,
                             event_data.base_uri, event_data.request_headers,
                             event_data.body, event_data.retry,
                             event_data.timeout) IN
    IF emitted_event_type = REQUEST_SENT
    THEN dispatch(d2, request_sent_event, Events_ON_REQUEST_SENT)
    ELSE IF emitted_event_type = RESPONSE_RECEIVED
    THEN dispatch(d2, request_sent_event, Events_ON_RESPONSE_RECEIVED)
    ELSE OpResult(d2, ShipEngineError("not a valid type of event"), <<>>)

\* emit_event: a new dispatcher per emission, the configured listener
\* registered under both kinds, then the event built and dispatched.
emit_event(emitted_event_type, event_data, config) ==
    LET d0 == Dispatcher({Events_ON_REQUEST_SENT, Events_ON_RESPONSE_RECEIVED})
        d1 == register(d0, Events_ON_REQUEST_SENT, config.event_listener,
                       NoneCallback).events
        d2 == register(d1, Events_ON_RESPONSE_RECEIVED, config.event_listener,
                       NoneCallback).events IN
    IF emitted_event_type = REQUEST_SENT
    THEN LET request_sent_event ==
                 RequestSentEvent(event_data.request_id, event_data.message,
                                  event_data.base_uri, event_data.request_headers,
                                  event_data.body, event_data.retry,
                                  event_data.timeout) IN
         dispatch(d2, request_sent_event, Events_ON_REQUEST_SENT)
    ELSE IF emitted_event_type = RESPONSE_RECEIVED
    THEN LET response_received_event ==
                 ResponseReceivedEvent(event_data.message, event_data.request_id,
                                       event_data.base_uri, event_data.status_code,
                                       event_data.request_headers, event_data.body,
                                       event_data.retry, event_data.elapsed) IN
         dispatch(d2, response_received_event, Events_ON_RESPONSE_RECEIVED)
    ELSE OpResult(d2, ShipEngineError("not a valid type of event"), <<>>)

\* ----------------------------------------------------------- input domains
\* Every JSON-RPC response body carries the "jsonrpc" member; "id" and
\* "error" are optional, as are "data" inside "error" and "retryAfter"
\* inside "data".
ErrorDatas ==
    {[source |-> "carrier", type |-> "system", code |-> "unspecified"]}
    \cup {[source |-> "carrier", type |-> "system", code |-> "unspecified",
           retryAfter |-> r] : r \in 0..MaxRetryAfter}

ErrorObjects ==
    {[message |-> "boom"]} \cup {[message |-> "boom", data |-> d] : d \in ErrorDatas}

BodyBase == [jsonrpc |-> "2.0"]

Bodies ==
    LET withId == {BodyBase, [jsonrpc |-> "2.0", id |-> "req_1"]} IN
    withId \cup {[error |-> e] @@ b : e \in ErrorObjects, b \in withId}

Statuses == {200, 404, 429, 500}

ApiKeys == {<<>>, <<" ", "k">>, <<"k">>}

\* The dict handed to ShipEngineConfig: any of the three keys may be absent.
ConfigDicts ==
    LET keys == {[api_key |-> k] : k \in ApiKeys}
        retries == {[retries |-> n] : n \in -1..MaxRetries}
        timeouts == {[timeout |-> t] : t \in -1..MaxTimeout}
        a == keys \cup {[page_size |-> 50]}
        b == a \cup {r @@ x : r \in retries, x \in a}
    IN b \cup {t @@ x : t \in timeouts, x \in b}

Streets == {[i \in 1..n |-> "line"] : n \in 0..MaxStreetLines}

ShipEngineEventListener == [name |-> "Event Subscriber", update_raises |-> FALSE]

METHOD == "address/validate"
BASE_URI == "https://api.shipengine.com/jsonrpc"
REQUEST_ID == "req_42"

NoConfig == [retries |-> 0, timeout |-> 0, event_listener |-> ShipEngineEventListener]

\* ------------------------------------------------------------------- state
VARIABLES
    pc,         \* position of the logical call
    given,      \* what the caller passed in: the config dict and the street lines
    config,     \* the merged configuration (retries, timeout, event_listener)
    attempt,    \* the executor's attempt counter
    transports, \* transport calls made so far
    responses,  \* the structured responses received, one per answered attempt
    delivered,  \* callback invocations made by emit_event, in order
    outcome,    \* the exception that ended the call, or NoError
    waited,     \* time the call has spent waiting between attempts
    events,     \* Dispatcher.events of a dispatcher under test
    lastOp,     \* the last operation made on that dispatcher and its effect
    dispatchers, \* the Dispatcher objects of the emissions under way
    frames,      \* per concurrent call: where its emit_event stands
    inbox        \* the callback invocations the listeners have received

vars == <<pc, given, config, attempt, transports, responses, delivered, outcome,
          waited, events, lastOp, dispatchers, frames, inbox>>

callVars == <<pc, given, config, attempt, transports, responses, delivered, outcome,
             waited>>

dispVars == <<events, lastOp>>

concVars == <<dispatchers, frames, inbox>>

BothKinds == {Events_ON_REQUEST_SENT, Events_ON_RESPONSE_RECEIVED}

\* Stands for the subscriber argument of an operation that takes none.
NoSubscriber == [name |-> "-", update_raises |-> FALSE]

NoOp == [op |-> "none", event |-> "-", subscriber |-> NoSubscriber,
         callback |-> NoneCallback, raised |-> NoError, calls |-> <<>>,
         before |-> Dispatcher(BothKinds)]

\* ---------------------------------------------------------- request executor
\* Construction of the configuration: the three config validators run, and
\* a key the dict leaves out takes a default, some valid value.
Configure ==
    /\ pc = "new"
    /\ \E dict \in ConfigDicts, dr \in 0..MaxRetries, dt \in 0..MaxTimeout :
         LET e == FirstRaised(<<is_api_key_valid(dict), is_timeout_valid(dict),
                                is_retries_valid(dict)>>) IN
         /\ given' = [given EXCEPT !.dict = dict]
         /\ IF Raised(e)
            THEN /\ pc' = "failed"
                 /\ outcome' = e
                 /\ UNCHANGED config
               ELSE /\ pc' = "ready"
                 /\ config' = [retries |-> IF Has(dict, "retries")
                                           THEN dict["retries"] ELSE dr,
                               timeout |-> IF Has(dict, "timeout")
                                           THEN dict["timeout"] ELSE dt,
                               event_listener |-> ShipEngineEventListener]
                 /\ UNCHANGED outcome
    /\ UNCHANGED <<attempt, transports, responses, delivered, waited, dispVars, concVars>>

\* The validators accept or reject the caller's input before a request
\* context is built.
ValidateInput ==
    /\ pc = "ready"
    /\ \E street \in Streets :
         LET e == is_street_valid(street) IN
         /\ given' = [given EXCEPT !.street = street, !.has_street = TRUE]
         /\ IF Raised(e)
            THEN pc' = "failed" /\ outcome' = e
            ELSE pc' = "validated" /\ UNCHANGED outcome
    /\ UNCHANGED <<config, attempt, transports, responses, delivered,
                   waited, dispVars, concVars>>

EventData(message, status_code, body) ==
    [message |-> message, request_id |-> REQUEST_ID, base_uri |-> BASE_URI,
     request_headers |-> <<"Content-Type: application/json">>, body |-> body,
     retry |-> attempt, timeout |-> config.timeout, status_code |-> status_code,
     elapsed |-> transports + 1]  \* each transport call takes one unit of time

MessageType(n) == IF n = 0 THEN "base_message" ELSE "retry_message"

\* Before each attempt a RequestSent event is emitted.
SendRequest ==
    /\ pc = "validated"
    /\ LET message == new_event_message(METHOD, BASE_URI, MessageType(attempt)).value
           r == emit_event(REQUEST_SENT, EventData(message, 0, BodyBase), config) IN
       delivered' = delivered \o r.calls
    /\ pc' = "sent"
    /\ UNCHANGED <<given, config, attempt, transports, responses, outcome,
                   waited, dispVars, concVars>>

\* A transport-level failure ends the call: it is not retried.
TransportFailure ==
    /\ pc = "sent"
    /\ transports' = transports + 1
    /\ outcome' = ClientSystemError("transport failure", "None",
                                    ErrorSource_SHIPENGINE, "system", "unspecified")
    /\ pc' = "failed"
    /\ UNCHANGED <<given, config, attempt, responses, delivered,
                   waited, dispVars, concVars>>

Retryable(e) == e.kind = "RateLimitExceededError"

DoRetry(e) == Retryable(e) /\ attempt < config.retries

\* A structured response classified Success: ResponseReceived is emitted
\* and the result returned.
ReceiveSuccess ==
    /\ pc = "sent"
    /\ \E status_code \in Statuses, body \in Bodies :
         /\ ~Raised(classify(status_code, body, config))
         /\ responses' = Append(responses, [status_code |-> status_code, body |-> body])
         /\ LET r == emit_event(RESPONSE_RECEIVED,
                                EventData(<<"Received status ", status_code>>,
                                          status_code, body), config) IN
            delivered' = delivered \o r.calls
    /\ transports' = transports + 1
    /\ pc' = "completed"
    /\ UNCHANGED <<given, config, attempt, outcome, waited, dispVars, concVars>>

\* A response classified Retryable while attempts remain: the executor waits
\* for the error's retry_after and loops.
ReceiveRetryable ==
    /\ pc = "sent"
    /\ \E status_code \in Statuses, body \in Bodies :
         /\ DoRetry(classify(status_code, body, config))
         /\ responses' = Append(responses, [status_code |-> status_code, body |-> body])
         /\ waited' = waited + classify(status_code, body, config).retry_after
    /\ transports' = transports + 1
    /\ attempt' = attempt + 1
    /\ pc' = "validated"
    /\ UNCHANGED <<given, config, delivered, outcome, dispVars, concVars>>

\* Any other classification, and a Retryable one with attempts exhausted,
\* ends the call with the classifier's error.
ReceiveTerminal ==
    /\ pc = "sent"
    /\ \E status_code \in Statuses, body \in Bodies :
         LET e == classify(status_code, body, config) IN
         /\ Raised(e) /\ ~DoRetry(e)
         /\ responses' = Append(responses, [status_code |-> status_code, body |-> body])
         /\ outcome' = e
    /\ transports' = transports + 1
    /\ pc' = "failed"
    /\ UNCHANGED <<given, config, attempt, delivered, waited, dispVars, concVars>>

\* ------------------------------------------------- concurrent calls: state
\* Logical calls running at the same time, each with a listener of its own in
\* its configuration and a request id of its own.
Calls == 1..MaxCalls

ListenerOf(c) == [name |-> <<"listener", c>>, update_raises |-> FALSE]

RequestIdOf(c) == <<"req", c>>

ConfigOf(c) == [retries |-> 0, timeout |-> 0, event_listener |-> ListenerOf(c)]

\* Mutant of emit_dispatcher: one module-level dispatcher that every emission
\* uses.
emit_dispatcher_shared(c) == 0

\* The object the local name "dispatcher" of an emit_event invocation is bound
\* to: one made by that invocation, so one per call at any time.
emit_dispatcher(c) == c

Cells == {emit_dispatcher(c) : c \in Calls}

IdleFrame ==
    [pc |-> "idle", type |-> REQUEST_SENT, emitted |-> 0,
     result |-> [raised |-> NoError, calls |-> <<>>]]

ConcIdle ==
    /\ dispatchers = [d \in Cells |-> Dispatcher(BothKinds)]
    /\ frames = [c \in Calls |-> IdleFrame]
    /\ inbox = {}

CallInit ==
    /\ pc = "new"
    /\ given = [dict |-> [page_size |-> 50], street |-> <<>>, has_street |-> FALSE]
    /\ config = NoConfig
    /\ attempt = 0
    /\ transports = 0
    /\ responses = <<>>
    /\ delivered = <<>>
    /\ outcome = NoError
    /\ waited = 0

Init ==
    /\ CallInit
    /\ events = Dispatcher(BothKinds)
    /\ lastOp = NoOp
    /\ ConcIdle

Next ==
    \/ Configure
    \/ ValidateInput
    \/ SendRequest
    \/ TransportFailure
    \/ ReceiveSuccess
    \/ ReceiveRetryable
    \/ ReceiveTerminal

Spec == Init /\ [][Next]_vars

\* ------------------------------------------------- dispatcher under test
\* A dispatcher built for some list of event kinds, then used through its
\* three methods with kinds it was and was not built for.
Subscribers ==
    {[name |-> "s1", update_raises |-> FALSE], [name |-> "s2", update_raises |-> TRUE]}

Callbacks ==
    {NoneCallback, [name |-> "f", owner |-> "-", raises |-> FALSE],
     [name |-> "g", owner |-> "-", raises |-> TRUE]}

EventKinds == BothKinds \cup {"on_other"}

SampleEvents ==
    {RequestSentEvent(REQUEST_ID, <<"Calling">>, BASE_URI, <<>>, BodyBase, 0, 1),
     ResponseReceivedEvent(<<"Received">>, REQUEST_ID, BASE_URI, 200, <<>>,
                           BodyBase, 0, 1)}

Record(op, event, subscriber, callback, r) ==
    /\ events' = r.events
    /\ lastOp' = [op |-> op, event |-> event, subscriber |-> subscriber,
                  callback |-> callback, raised |-> r.raised,
                  calls |-> r.calls, before |-> events]
    /\ UNCHANGED <<callVars, concVars>>

DoRegister ==
    \E event \in EventKinds, subscriber \in Subscribers, callback \in Callbacks :
        Record("register", event, subscriber, callback,
               register(events, event, subscriber, callback))

DoUnregister ==
    \E event \in EventKinds, subscriber \in Subscribers :
        Record("unregister", event, subscriber, NoneCallback,
               unregister(events, event, subscriber))

DoDispatch ==
    \E event \in SampleEvents, event_name \in EventKinds :
        Record("dispatch", event_name, NoSubscriber, NoneCallback,
               dispatch(events, event, event_name))

DispatcherInit ==
    /\ CallInit
    /\ events \in {Dispatcher(BothKinds), Dispatcher({Events_ON_REQUEST_SENT})}
    /\ lastOp = NoOp
    /\ ConcIdle

DispatcherNext == DoRegister \/ DoUnregister \/ DoDispatch

SpecDispatcher == DispatcherInit /\ [][DispatcherNext]_vars

\* -------------------------------------------------------- concurrent calls
\* emit_event taken one statement at a time, so that the emissions of
\* different calls interleave.
EmitTypes == {REQUEST_SENT, RESPONSE_RECEIVED, "other_event"}

CallEventData(c, n) ==
    [message |-> new_event_message(METHOD, BASE_URI, MessageType(n)).value,
     request_id |-> RequestIdOf(c), base_uri |-> BASE_URI,
     request_headers |-> <<"Content-Type: application/json">>, body |-> BodyBase,
     retry |-> n, timeout |-> ConfigOf(c).timeout, status_code |-> 200,
     elapsed |-> n + 1]

Goto(c, label) == frames' = [frames EXCEPT ![c].pc = label]

\* dispatcher = Dispatcher([...]): the invocation makes its dispatcher.
EmitConstruct(c) ==
    /\ frames[c].pc = "idle"
    /\ frames[c].emitted < MaxEmissions
    /\ \E emitted_event_type \in EmitTypes :
         frames' = [frames EXCEPT ![c].pc = "register_sent",
                                  ![c].type = emitted_event_type]
    /\ dispatchers' = [dispatchers EXCEPT ![emit_dispatcher(c)] =
                          Dispatcher({Events_ON_REQUEST_SENT,
                                      Events_ON_RESPONSE_RECEIVED})]
    /\ UNCHANGED <<inbox, callVars, dispVars>>

\* dispatcher.register(event=Events.ON_REQUEST_SENT.value, ...)
EmitRegisterSent(c) ==
    /\ frames[c].pc = "register_sent"
    /\ dispatchers' = [dispatchers EXCEPT ![emit_dispatcher(c)] =
                          register(@, Events_ON_REQUEST_SENT,
                                   ConfigOf(c).event_listener, NoneCallback).events]
    /\ Goto(c, "register_received")
    /\ UNCHANGED <<inbox, callVars, dispVars>>

\* dispatcher.register(event=Events.ON_RESPONSE_RECEIVED.value, ...)
EmitRegisterReceived(c) ==
    /\ frames[c].pc = "register_received"
    /\ dispatchers' = [dispatchers EXCEPT ![emit_dispatcher(c)] =
                          register(@, Events_ON_RESPONSE_RECEIVED,
                                   ConfigOf(c).event_listener, NoneCallback).events]
    /\ Goto(c, "dispatch")
    /\ UNCHANGED <<inbox, callVars, dispVars>>

\* The branch on emitted_event_type: the event is built and dispatched, or
\* ShipEngineError is raised.
EmitBranch(c) ==
    LET f == frames[c]
        d == dispatchers[emit_dispatcher(c)]
        event_data == CallEventData(c, f.emitted) IN
    IF f.type = REQUEST_SENT
    THEN dispatch(d, RequestSentEvent(event_data.request_id, event_data.message,
                                      event_data.base_uri, event_data.request_headers,
                                      event_data.body, event_data.retry,
                                      event_data.timeout),
                  Events_ON_REQUEST_SENT)
    ELSE IF f.type = RESPONSE_RECEIVED
    THEN dispatch(d, ResponseReceivedEvent(event_data.message, event_data.request_id,
                                           event_data.base_uri, event_data.status_code,
                                           event_data.request_headers, event_data.body,
                                           event_data.retry, event_data.elapsed),
                  Events_ON_RESPONSE_RECEIVED)
    ELSE OpResult(d, ShipEngineError("not a valid type of event"), <<>>)

EmitDispatch(c) ==
    /\ frames[c].pc = "dispatch"
    /\ LET r == EmitBranch(c) IN
       /\ inbox' = inbox \cup {r.calls[i] : i \in 1..Len(r.calls)}
       /\ frames' = [frames EXCEPT ![c].pc = "idle",
                                   ![c].emitted = @ + 1,
                                   ![c].result = [raised |-> r.raised,
                                                  calls |-> r.calls]]
    /\ UNCHANGED <<dispatchers, callVars, dispVars>>

ConcurrentInit ==
    /\ CallInit
    /\ events = Dispatcher(BothKinds)
    /\ lastOp = NoOp
    /\ ConcIdle

ConcurrentNext ==
    \E c \in Calls :
        \/ EmitConstruct(c)
        \/ EmitRegisterSent(c)
        \/ EmitRegisterReceived(c)
        \/ EmitDispatch(c)

SpecConcurrent == ConcurrentInit /\ [][ConcurrentNext]_vars

\* ================================================================== claims
Ended == pc \in {"completed", "failed"}

\* The response carries an error object whose data has a retryAfter.
HasRetryAfter(body) ==
    /\ Has(body, "error")
    /\ Has(body["error"], "data")
    /\ Has(body["error"]["data"], "retryAfter")

OverBudget429(r) ==
    /\ r.status_code = 429
    /\ HasRetryAfter(r.body)
    /\ r.body["error"]["data"]["retryAfter"] > config.timeout

WithinBudget429(r) ==
    /\ r.status_code = 429
    /\ HasRetryAfter(r.body)
    /\ r.body["error"]["data"]["retryAfter"] <= config.timeout

\* C1: every 429 response whose error object has data.retryAfter above
\* config.timeout ends the call with ClientTimeoutError whose retry_after is
\* config.timeout, and no transport attempt follows it.
C1_OverBudgetRaisesTimeout ==
    \A i \in 1..Len(responses) :
        OverBudget429(responses[i]) =>
            /\ i = Len(responses)
            /\ pc = "failed"
            /\ outcome.kind = "ClientTimeoutError"
            /\ outcome.retry_after = config.timeout

\* An error envelope: an error object with message and data.source, type and
\* code.  The top-level id is an optional member of the body.
ErrorEnvelope(body) ==
    /\ Has(body, "error")
    /\ Has(body["error"], "message")
    /\ Has(body["error"], "data")
    /\ {"source", "type", "code"} \subseteq DOMAIN body["error"]["data"]

\* C2: a 404 or 500 response carrying an error envelope ends the call with
\* ClientSystemError whose request_id is the body's id, whose message is
\* error.message and whose error_code, error_type and source are
\* error.data.code, error.data.type and error.data.source.
C2_SystemErrorFromEnvelope ==
    \A i \in 1..Len(responses) :
        LET r == responses[i] IN
        (r.status_code \in {404, 500} /\ ErrorEnvelope(r.body)) =>
            /\ i = Len(responses)
            /\ pc = "failed"
            /\ outcome.kind = "ClientSystemError"
            /\ Has(r.body, "id") => outcome.request_id = r.body["id"]
            /\ outcome.message = r.body["error"]["message"]
            /\ outcome.error_code = r.body["error"]["data"]["code"]
            /\ outcome.error_type = r.body["error"]["data"]["type"]
            /\ outcome.source = r.body["error"]["data"]["source"]

AllWithinBudget429 ==
    /\ Len(responses) = transports
    /\ \A i \in 1..Len(responses) : WithinBudget429(responses[i])

\* C3: when every attempt is answered by a 429 with retryAfter within
\* config.timeout, the call makes exactly config.retries + 1 transport
\* attempts and then fails with the RateLimitExceededError of the last one.
C3_RetryExhaustion ==
    AllWithinBudget429 =>
        /\ transports <= config.retries + 1
        /\ (Ended /\ transports >= 1) =>
             /\ transports = config.retries + 1
             /\ pc = "failed"
             /\ outcome.kind = "RateLimitExceededError"
             /\ outcome.retry_after =
                  responses[transports].body["error"]["data"]["retryAfter"]

\* C4: an attempt answered by a 429 with retryAfter within config.timeout
\* while retries remain is followed by another attempt: the attempt counter
\* is greater than it was at that attempt, and the call does not end before
\* a further transport attempt is made.
C4_RetryableGoesOn ==
    \A i \in 1..Len(responses) :
        (WithinBudget429(responses[i]) /\ i - 1 < config.retries) =>
            /\ attempt > i - 1
            /\ Ended => transports > i

\* C1 to C4 with the top-level id present in every response: the statements
\* hold of the responses that carry one.
EveryResponseHasId == \A i \in 1..Len(responses) : Has(responses[i].body, "id")

C1_WithId == EveryResponseHasId => C1_OverBudgetRaisesTimeout

C2_WithId == EveryResponseHasId => C2_SystemErrorFromEnvelope

C3_WithId == EveryResponseHasId => C3_RetryExhaustion

C4_WithId == EveryResponseHasId => C4_RetryableGoesOn

\* C5: dispatch calls every callback registered for the kind, in
\* registration order, whether or not one of them raises.
C5_DispatchReachesEverySubscriber ==
    (lastOp.op = "dispatch" /\ Has(lastOp.before, lastOp.event)) =>
        LET subs == lastOp.before[lastOp.event] IN
        /\ Len(lastOp.calls) = Len(subs)
        /\ \A i \in 1..Len(subs) :
             /\ lastOp.calls[i].subscriber = subs[i].subscriber
             /\ lastOp.calls[i].callback = subs[i].callback

\* C5 when no callback registered for the kind raises: every callback is
\* called, in registration order.
C5_WithoutRaisingCallback ==
    (/\ lastOp.op = "dispatch"
     /\ Has(lastOp.before, lastOp.event)
     /\ FirstRaising(lastOp.before[lastOp.event]) = 0) =>
        C5_DispatchReachesEverySubscriber

\* C6: register, unregister and dispatch with an event kind the dispatcher
\* was not built with fail with the KeyError of get_subscribers (the
\* ConfigurationError of the specification), call no callback and leave the
\* registry as it was.
C6_UnknownKindFails ==
    (lastOp.op # "none" /\ ~Has(lastOp.before, lastOp.event)) =>
        /\ lastOp.raised = KeyError(lastOp.event)
        /\ lastOp.calls = <<>>
        /\ events = lastOp.before

C6_Witness ==
    /\ lastOp.op = "dispatch"
    /\ lastOp.event = Events_ON_RESPONSE_RECEIVED
    /\ ~Has(lastOp.before, lastOp.event)
    /\ Len(lastOp.before[Events_ON_REQUEST_SENT]) = 2
    /\ lastOp.raised.kind = "KeyError"

IsRequestSent(call) == call.event.type = REQUEST_SENT

SentCalls == SelectSeq(delivered, IsRequestSent)

ExpectedMessage(i) ==
    IF i = 1
    THEN <<"Calling the ShipEngine ", METHOD, " API at ", BASE_URI>>
    ELSE <<"Retrying the ShipEngine ", METHOD, " API at ", BASE_URI>>

\* C7: one RequestSent event is delivered before each transport attempt and
\* none otherwise; the first carries the base message, every later one the
\* retry message.
C7_RequestSentPerAttempt ==
    /\ Len(SentCalls) = transports + (IF pc = "sent" THEN 1 ELSE 0)
    /\ \A i \in 1..Len(SentCalls) :
         /\ SentCalls[i].event.message = ExpectedMessage(i)
         /\ SentCalls[i].event.retry = i - 1
         /\ SentCalls[i].subscriber = config.event_listener

C7_Witness ==
    /\ pc = "completed"
    /\ transports = 2
    /\ Len(SentCalls) = 2
    /\ SentCalls[1].event.message[1] = "Calling the ShipEngine "
    /\ SentCalls[2].event.message[1] = "Retrying the ShipEngine "

ReceivedAt == {i \in 1..Len(delivered) : delivered[i].event.type = RESPONSE_RECEIVED}

\* C8: a call that returns a result has delivered exactly one
\* ResponseReceived event, after all its RequestSent events; a call that has
\* not returned a result, in particular one that ended with an error, has
\* delivered none.
C8_ResponseReceivedOnlyOnSuccess ==
    /\ pc = "completed" => ReceivedAt = {Len(delivered)} /\ Len(delivered) >= 2
    /\ pc # "completed" => ReceivedAt = {}

C8_Witness ==
    /\ pc = "completed"
    /\ transports = 2
    /\ ReceivedAt = {3}

C8_WitnessFailed ==
    /\ pc = "failed"
    /\ transports = 2
    /\ outcome.kind = "RateLimitExceededError"
    /\ ReceivedAt = {}

\* What the executor requires of the configuration and of the input: an API
\* key that is present and not empty, retries and timeout not negative,
\* between one and three street lines.
InvalidConfig(dict) ==
    \/ ~Has(dict, "api_key")
    \/ Has(dict, "api_key") /\ dict["api_key"] = <<>>
    \/ Has(dict, "retries") /\ dict["retries"] < 0
    \/ Has(dict, "timeout") /\ dict["timeout"] < 0

InvalidStreet(street) == Len(street) = 0 \/ Len(street) > 3

LocalKinds == {"ValidationError", "InvalidFieldValueError"}

\* C9: a configuration or an input that a validator rejects ends the call
\* with ValidationError or InvalidFieldValueError, request_id None, with no
\* event delivered and no transport attempt made.
C9_LocalRejectionBeforeAnyRequest ==
    /\ (pc # "new" /\ InvalidConfig(given.dict)) =>
           pc = "failed" /\ outcome.kind \in LocalKinds
    /\ (given.has_street /\ InvalidStreet(given.street)) =>
           pc = "failed" /\ outcome.kind \in LocalKinds
    /\ outcome.kind \in LocalKinds =>
           /\ pc = "failed"
           /\ outcome.request_id = "None"
           /\ transports = 0
           /\ delivered = <<>>

C9_Witness ==
    /\ pc = "failed"
    /\ Has(given.dict, "retries") /\ given.dict["retries"] = -1
    /\ outcome.kind = "InvalidFieldValueError"
    /\ outcome.field_name = "retries"

\* C10: a 500 response without an error object makes classification fail
\* with the KeyError of the missing member (the malformed-response failure,
\* ProtocolError in the specification), not with ClientSystemError or
\* any other of the SDK's errors.
C10_Status500WithoutErrorObject ==
    \A i \in 1..Len(responses) :
        LET r == responses[i] IN
        (r.status_code = 500 /\ ~Has(r.body, "error")) =>
            /\ i = Len(responses)
            /\ classify(r.status_code, r.body, config) = KeyError("error")
            /\ pc = "failed"
            /\ outcome = KeyError("error")

C10_Witness ==
    /\ pc = "failed"
    /\ Len(responses) = 2
    /\ responses[2].status_code = 500
    /\ ~Has(responses[2].body, "error")
    /\ Has(responses[2].body, "id")
    /\ outcome.kind = "KeyError"

\* The inputs for which the classification rules name an error.
ErrorCase(r) ==
    \/ r.status_code = 404 /\ Has(r.body, "error")
    \/ r.status_code = 429 /\ Has(r.body, "error")
    \/ r.status_code = 500

\* C11: classification raises exactly for a 404 with an error object, a 429
\* with an error object and a 500; every other status and body is a Success,
\* which ends the call with a result.
C11_ClassificationCases ==
    \A i \in 1..Len(responses) :
        LET r == responses[i]
            e == classify(r.status_code, r.body, config) IN
        /\ ErrorCase(r) <=> Raised(e)
        /\ ~ErrorCase(r) => i = Len(responses) /\ pc = "completed"

\* C11 when every error object received carries its data member.
EveryErrorHasData ==
    \A i \in 1..Len(responses) :
        Has(responses[i].body, "error") => Has(responses[i].body["error"], "data")

C11_WithErrorData == EveryErrorHasData => C11_ClassificationCases

\* A retry has begun: the transport attempt of a retry is under way.
RetryBegun == pc = "sent" /\ attempt >= 1

C12_EachWaitWithinTimeout ==
    \A i \in 1..Len(responses) :
        (i < transports /\ Has(responses[i].body, "id")) =>
            responses[i].body["error"]["data"]["retryAfter"] <= config.timeout

\* The call went on after its i-th response.
WentOn(i) == i < transports \/ (i = Len(responses) /\ pc \in {"validated", "sent"})

\* A 404 or 500 whose body carries the error envelope and the request id.
SystemErrorResponse(r) ==
    /\ r.status_code \in {404, 500}
    /\ ErrorEnvelope(r.body)
    /\ Has(r.body, "id")

\* The error each terminal response stands for, field by field.
ExpectedError(r) ==
    IF r.status_code = 429
    THEN [kind |-> "ClientTimeoutError", retry_after |-> config.timeout,
          source |-> ErrorSource_SHIPENGINE, request_id |-> r.body["id"]]
    ELSE [kind |-> "ClientSystemError", message |-> r.body["error"]["message"],
          request_id |-> r.body["id"],
          source |-> r.body["error"]["data"]["source"],
          error_type |-> r.body["error"]["data"]["type"],
          error_code |-> r.body["error"]["data"]["code"]]

\* C13: the call goes on only after a 429 within config.timeout; a transport
\* failure, a 404 or 500 that yields ClientSystemError and a 429 that yields
\* ClientTimeoutError end the call at once, retries left or not, and the
\* caller gets that error with every field as the response gave it.
C13_OnlyRateLimitRetried ==
    /\ \A i \in 1..Len(responses) :
         LET r == responses[i] IN
         /\ WentOn(i) => WithinBudget429(r) /\ Has(r.body, "id")
         /\ (SystemErrorResponse(r) \/ (OverBudget429(r) /\ Has(r.body, "id"))) =>
               /\ ~WentOn(i)
               /\ pc = "failed"
               /\ outcome = ExpectedError(r)
    /\ transports > Len(responses) =>
         /\ transports = Len(responses) + 1
         /\ pc = "failed"
         /\ outcome.kind = "ClientSystemError"

\* A 500 received on a retry, with a retry still left, ends the call.
C13_Witness ==
    /\ pc = "failed"
    /\ attempt = 1
    /\ config.retries = 2
    /\ transports = 2
    /\ Len(responses) = 2
    /\ WithinBudget429(responses[1])
    /\ SystemErrorResponse(responses[2])
    /\ responses[2].status_code = 500
    /\ outcome = ExpectedError(responses[2])

\* A transport failure on a retry, with a retry still left, ends the call.
C13_WitnessTransport ==
    /\ pc = "failed"
    /\ attempt = 1
    /\ config.retries = 2
    /\ transports = 2
    /\ Len(responses) = 1
    /\ outcome.kind = "ClientSystemError"

\* The subscribers a dispatcher holds, under any kind.
SubscribersIn(d) ==
    UNION {{d[k][i].subscriber : i \in 1..Len(d[k])} : k \in DOMAIN d}

\* C14: however the emissions of concurrent calls interleave, an event goes
\* only to the listener of the call that emitted it, and the dispatcher an
\* emission works on never holds the listener of another call.
C14_ListenersIsolated ==
    /\ \A m \in inbox : \A c \in Calls :
         m.event.request_id = RequestIdOf(c) => m.subscriber = ListenerOf(c)
    /\ \A c \in Calls :
         frames[c].pc # "idle" =>
             SubscribersIn(dispatchers[emit_dispatcher(c)]) \subseteq {ListenerOf(c)}

\* Call 1 has delivered its event to its own listener while call 2, its
\* listener registered under both kinds, is about to dispatch.
C14_Witness ==
    /\ frames[1].pc = "idle"
    /\ frames[1].emitted = 1
    /\ \E m \in inbox :
         m.subscriber = ListenerOf(1) /\ m.event.request_id = RequestIdOf(1)
    /\ frames[2].pc = "dispatch"
    /\ SubscribersIn(dispatchers[emit_dispatcher(2)]) = {ListenerOf(2)}

\* Taken one statement at a time, an emission delivers what emit_event
\* delivers.
C14_StepsAgreeWithEmitEvent ==
    \A c \in Calls :
        (frames[c].pc = "idle" /\ frames[c].emitted >= 1) =>
            LET r == emit_event(frames[c].type,
                                CallEventData(c, frames[c].emitted - 1),
                                ConfigOf(c)) IN
            frames[c].result = [raised |-> r.raised, calls |-> r.calls]

\* The position of subscriber s among the entries subs, 0 when it has none.
PlaceOf(subs, s) ==
    IF \E i \in 1..Len(subs) : subs[i].subscriber = s
    THEN CHOOSE i \in 1..Len(subs) : subs[i].subscriber = s
    ELSE 0

\* The last operation was made with a kind the dispatcher has and did not
\* fail on its arguments.
KnownKind(op) == lastOp.op = op /\ Has(lastOp.before, lastOp.event)

\* register: the subscriber has one entry under the kind, holding the callback
\* given (its update method when none is given), at the place it had or, when
\* new, at the end; the other entries and the other kinds are as before.
RegisterEffect ==
    KnownKind("register") =>
        LET old == lastOp.before[lastOp.event]
            new == events[lastOp.event]
            s == lastOp.subscriber
            cb == IF lastOp.callback = NoneCallback
                  THEN [name |-> "update", owner |-> s.name, raises |-> s.update_raises]
                  ELSE lastOp.callback
            at == PlaceOf(old, s) IN
        /\ Len(new) = (IF at = 0 THEN Len(old) + 1 ELSE Len(old))
        /\ PlaceOf(new, s) = (IF at = 0 THEN Len(old) + 1 ELSE at)
        /\ new[PlaceOf(new, s)].callback = cb
        /\ \A i \in 1..Len(old) : i # at => new[i] = old[i]
        /\ \A k \in DOMAIN events : k # lastOp.event => events[k] = lastOp.before[k]

\* unregister: the subscriber has no entry under the kind any more; the other
\* entries keep their order and the other kinds are as before.
UnregisterEffect ==
    (KnownKind("unregister") /\ lastOp.raised = NoError) =>
        LET old == lastOp.before[lastOp.event]
            new == events[lastOp.event]
            at == PlaceOf(old, lastOp.subscriber) IN
        /\ at # 0
        /\ PlaceOf(new, lastOp.subscriber) = 0
        /\ Len(new) = Len(old) - 1
        /\ \A i \in 1..Len(new) : new[i] = (IF i < at THEN old[i] ELSE old[i + 1])
        /\ \A k \in DOMAIN events : k # lastOp.event => events[k] = lastOp.before[k]

\* No subscriber has two entries under one kind.
OneEntryPerSubscriber ==
    \A k \in DOMAIN events : \A i, j \in 1..Len(events[k]) :
        events[k][i].subscriber = events[k][j].subscriber => i = j

\* dispatch: one call per entry registered under the kind, with that entry's
\* callback and the event dispatched, and the registry as before.
DispatchEffect ==
    KnownKind("dispatch") =>
        LET subs == lastOp.before[lastOp.event] IN
        /\ events = lastOp.before
        /\ Len(lastOp.calls) = Len(subs)
        /\ \A i \in 1..Len(lastOp.calls) :
             /\ lastOp.calls[i].subscriber = subs[i].subscriber
             /\ lastOp.calls[i].callback = subs[i].callback
             /\ lastOp.calls[i].event \in SampleEvents

\* C15: after any registers and unregisters a dispatch calls one callback for
\* each subscriber registered under the kind, the one of its latest register,
\* a re-register keeping the subscriber's place and adding no entry, calls
\* none for a subscriber unregistered or registered under another kind only,
\* and leaves the registry as it was.
C15_DispatchCallsEachRegisteredOnce ==
    /\ RegisterEffect
    /\ UnregisterEffect
    /\ OneEntryPerSubscriber
    /\ DispatchEffect

\* C15 when no callback registered for the kind dispatched raises.
C15_WithoutRaisingCallback ==
    (KnownKind("dispatch") => FirstRaising(lastOp.before[lastOp.event]) = 0) =>
        C15_DispatchCallsEachRegisteredOnce

\* C15 for emit_event: an emission delivers its event once, to the configured
\* listener's update, and one of a type that is neither request_sent nor
\* response_received delivers nothing and raises ShipEngineError.
C15_EmitEventOnce ==
    \A c \in Calls :
        (frames[c].pc = "idle" /\ frames[c].emitted >= 1) =>
            LET r == frames[c].result IN
            IF frames[c].type \in {REQUEST_SENT, RESPONSE_RECEIVED}
            THEN /\ r.raised = NoError
                 /\ Len(r.calls) = 1
                 /\ r.calls[1].subscriber = ListenerOf(c)
                 /\ r.calls[1].callback.name = "update"
                 /\ r.calls[1].event.type = frames[c].type
                 /\ r.calls[1].event.request_id = RequestIdOf(c)
            ELSE /\ r.raised.kind = "ShipEngineError"
                 /\ r.calls = <<>>

====
